---- MODULE Spec2Model ----
(***************************************************************************)
(* Model of the interactive move grab, src/src/input/move_grab.rs.         *)
(*                                                                         *)
(* One grab session drags one window.  The MoveGrab struct is the          *)
(* variables start_data .. gesture; `grab` is the session's lifecycle in   *)
(* the pointer stack; window_alive, layout and pressed are the             *)
(* compositor state the handlers read.  The layout engine, the cursor      *)
(* manager and the output locator are collaborators: every call a handler  *)
(* makes to them is appended to `calls` (the calls of the handler that ran *)
(* last), and `obs` accumulates what the calls of the whole session add up *)
(* to.  The answers of the layout engine are inputs of the handlers.       *)
(*                                                                         *)
(* Coordinates are f64 in the source; the model uses integers, on which    *)
(* the f64 subtraction, multiplication, comparison and abs() are exact.    *)
(***************************************************************************)
EXTENDS Integers, Sequences, FiniteSets

VARIABLES start_data, start_output, start_pos_within_output, last_location,
          gesture, grab, window_alive, layout, pressed, calls, obs

vars == <<start_data, start_output, start_pos_within_output, last_location,
          gesture, grab, window_alive, layout, pressed, calls, obs>>

----------------------------------------------------------------------------
(* Bounds and program constants *)

\* Events carry a millisecond timestamp, one of 1 .. MaxTimestamp.
MaxTimestamp == 1
Timestamps == 1..MaxTimestamp

\* c.x * c.x + c.y * c.y >= 8. * 8.
Threshold == 8

\* 0x110 and 0x111, the left and right buttons.
BTN_LEFT == 272
BTN_RIGHT == 273

\* Some other button, 0x112 (the middle button).
BTN_MIDDLE == BTN_RIGHT + 1

Buttons == {BTN_LEFT, BTN_RIGHT, BTN_MIDDLE}
ButtonStates == {"Pressed", "Released"}

\* Where a grab may start; <<40, 0>> lies on no output.
StartLocations == {<<2, 1>>, <<40, 0>>}

\* Pointer positions of motion events, relative to where the grab started.
Displacements ==
    {<<3, 4>>, <<8, 0>>, <<9, 6>>, <<6, 9>>, <<-7, 7>>, <<1, 20>>, <<10, 2>>,
     <<40, 0>>}

----------------------------------------------------------------------------
(* Points *)

Add(p, q) == <<p[1] + q[1], p[2] + q[2]>>
Sub(p, q) == <<p[1] - q[1], p[2] - q[2]>>
Abs(x) == IF x < 0 THEN -x ELSE x

----------------------------------------------------------------------------
(* Collaborators *)

\* The outputs: o1 covers x in [-32, 8), o2 covers x in [8, 32), both
\* y in [-32, 32).
OutputNames == {"o1", "o2"}
OutputLoc(o) == IF o = "o1" THEN <<-32, -32>> ELSE <<8, -32>>
OutputSize(o) == IF o = "o1" THEN <<40, 64>> ELSE <<24, 64>>

InOutput(o, p) ==
    /\ OutputLoc(o)[1] <= p[1] /\ p[1] < OutputLoc(o)[1] + OutputSize(o)[1]
    /\ OutputLoc(o)[2] <= p[2] /\ p[2] < OutputLoc(o)[2] + OutputSize(o)[2]

\* state.niri.output_under(location): the output under the point and the
\* point in the output's coordinates, or nothing.
output_under(p) ==
    IF \E o \in OutputNames : InOutput(o, p)
    THEN LET o == CHOOSE x \in OutputNames : InOutput(x, p)
         IN [found |-> TRUE, output |-> o, pos |-> Sub(p, OutputLoc(o))]
    ELSE [found |-> FALSE, output |-> "none", pos |-> <<0, 0>>]

\* Where the layout holds the window: on a workspace of a monitor, on a
\* workspace without a monitor, or on no workspace.
Placements == {"monitor", "no_monitor", "unplaced"}

\* layout.workspaces().find_map(.. ws.is_floating(&window)).unwrap_or(false)
is_floating(l) == IF l.placement = "unplaced" THEN FALSE ELSE l.floating

\* layout.workspaces().find_map(.. Some((output, ws_idx))): found when the
\* window's workspace is on a monitor.
find_placement(l) == l.placement = "monitor"

\* layout.toggle_window_floating(Some(&window))
toggle_window_floating(l) == [l EXCEPT !.floating = ~@]

----------------------------------------------------------------------------
(* The record of calls *)

\* A call: the operation, the handler that made it, its numeric argument
\* (a delta), its position argument, its named argument (an output, an
\* icon, a flag) and what it returned.
Call(op, by, arg, pos, target, ret) ==
    [op |-> op, by |-> by, arg |-> arg, pos |-> pos, target |-> target, ret |-> ret]

Bool(b) == IF b THEN "true" ELSE "false"

InitObs ==
    [move_begin      |-> 0,   \* calls of interactive_move_begin
     move_begin_ok   |-> 0,   \* those that returned true
     move_end        |-> 0,
     view_begin      |-> 0,
     view_end        |-> 0,
     ungrabs         |-> 0,   \* runs of on_ungrab
     txn             |-> "closed",  \* the engine's transaction
     protocol_ok     |-> TRUE,      \* no update or end without a begin
     cursor          |-> "none",    \* the last cursor request
     sum_move        |-> <<0, 0>>,  \* sum of the deltas of move_update
     sum_view        |-> 0,         \* sum of the values of view_offset_update
     dead_zone_only  |-> TRUE,      \* every motion event stayed below 8
     moved_before    |-> FALSE]     \* the last motion event found last_location
                                    \* away from where the grab started

Bump(o, c, op, field) == IF c.op = op THEN o[field] + 1 ELSE o[field]

TxnAfter(o, c) ==
    IF c.op = "move_begin" /\ c.ret = "true" THEN "move"
    ELSE IF c.op = "view_offset_begin" THEN "view_offset"
    ELSE IF c.op \in {"move_end", "view_offset_end"} THEN "closed"
    ELSE o.txn

ProtocolStep(o, c) ==
    CASE c.op \in {"move_begin", "view_offset_begin"} -> o.txn = "closed"
      [] c.op \in {"move_update", "move_end"} -> o.txn = "move"
      [] c.op \in {"view_offset_update", "view_offset_end"} -> o.txn = "view_offset"
      [] OTHER -> TRUE

Observe(o, c) ==
    [o EXCEPT
       !.move_begin = Bump(o, c, "move_begin", "move_begin"),
       !.move_begin_ok = IF c.op = "move_begin" /\ c.ret = "true" THEN @ + 1 ELSE @,
       !.move_end = Bump(o, c, "move_end", "move_end"),
       !.view_begin = Bump(o, c, "view_offset_begin", "view_begin"),
       !.view_end = Bump(o, c, "view_offset_end", "view_end"),
       !.txn = TxnAfter(o, c),
       !.protocol_ok = @ /\ ProtocolStep(o, c),
       !.cursor = IF c.op = "set_cursor_image" THEN c.target ELSE @,
       !.sum_move = IF c.op = "move_update" THEN Add(@, c.arg) ELSE @,
       !.sum_view = IF c.op = "view_offset_update" THEN @ + c.arg[1] ELSE @]

\* The handler's working state m: the fields a handler may change.
Emit(m, c) == [m EXCEPT !.calls = Append(@, c), !.obs = Observe(@, c)]

----------------------------------------------------------------------------
(* MoveGrab *)

GestureStates == {"Recognizing", "Move", "ViewOffset"}

\* The answers of the layout engine to the calls of one handler.  A handler
\* that has interactive_move_begin accepted asks for no second begin, and one
\* that has it refused makes no update, so the other combinations repeat
\* these.
Answers ==
    {r \in [begin_ok : BOOLEAN,                              \* interactive_move_begin in motion
            update : {"stop", "ongoing", "ongoing_output"},  \* the update's result
            ungrab_begin_ok : BOOLEAN] :                     \* interactive_move_begin in on_ungrab
       IF r.begin_ok THEN ~r.ungrab_begin_ok ELSE r.update = "stop"}

\* on_ungrab without the move_end of the degenerate move.
on_ungrab_unbalanced(m, begin_ok) ==
    LET counted == [m EXCEPT !.obs.ungrabs = @ + 1]
        ended ==
            CASE m.gesture = "Recognizing" ->
                   Emit(counted, Call("move_begin", "on_ungrab", <<>>,
                                      start_pos_within_output, start_output,
                                      Bool(begin_ok)))
              [] m.gesture = "Move" ->
                   Emit(counted, Call("move_end", "on_ungrab", <<>>, <<>>, "-", "-"))
              [] m.gesture = "ViewOffset" ->
                   Emit(counted,
                        Call("view_offset_end", "on_ungrab", <<>>, <<>>, "Some(false)", "-"))
        redrawn == Emit(ended, Call("queue_redraw_all", "on_ungrab", <<>>, <<>>, "-", "-"))
    IN Emit(redrawn, Call("set_cursor_image", "on_ungrab", <<>>, <<>>, "default", "-"))

\* on_ungrab without the reset of the cursor.
on_ungrab_keeps_cursor(m, begin_ok) ==
    LET counted == [m EXCEPT !.obs.ungrabs = @ + 1]
        ended ==
            CASE m.gesture = "Recognizing" ->
                   LET begun == Emit(counted,
                                     Call("move_begin", "on_ungrab", <<>>,
                                          start_pos_within_output, start_output,
                                          Bool(begin_ok)))
                   IN IF begin_ok
                      THEN Emit(begun, Call("move_end", "on_ungrab", <<>>, <<>>, "-", "-"))
                      ELSE begun
              [] m.gesture = "Move" ->
                   Emit(counted, Call("move_end", "on_ungrab", <<>>, <<>>, "-", "-"))
              [] m.gesture = "ViewOffset" ->
                   Emit(counted,
                        Call("view_offset_end", "on_ungrab", <<>>, <<>>, "Some(false)", "-"))
    IN Emit(ended, Call("queue_redraw_all", "on_ungrab", <<>>, <<>>, "-", "-"))

\* on_ungrab that ends a move whatever the gesture state.
on_ungrab_always_move_end(m, begin_ok) ==
    LET counted == [m EXCEPT !.obs.ungrabs = @ + 1]
        ended == Emit(counted, Call("move_end", "on_ungrab", <<>>, <<>>, "-", "-"))
        redrawn == Emit(ended, Call("queue_redraw_all", "on_ungrab", <<>>, <<>>, "-", "-"))
    IN Emit(redrawn, Call("set_cursor_image", "on_ungrab", <<>>, <<>>, "default", "-"))

\* MoveGrab::on_ungrab
on_ungrab(m, begin_ok) ==
    LET counted == [m EXCEPT !.obs.ungrabs = @ + 1]
        ended ==
            CASE m.gesture = "Recognizing" ->
                   LET begun == Emit(counted,
                                     Call("move_begin", "on_ungrab", <<>>,
                                          start_pos_within_output, start_output,
                                          Bool(begin_ok)))
                   IN IF begin_ok
                      THEN Emit(begun, Call("move_end", "on_ungrab", <<>>, <<>>, "-", "-"))
                      ELSE begun
              [] m.gesture = "Move" ->
                   Emit(counted, Call("move_end", "on_ungrab", <<>>, <<>>, "-", "-"))
              [] m.gesture = "ViewOffset" ->
                   Emit(counted,
                        Call("view_offset_end", "on_ungrab", <<>>, <<>>, "Some(false)", "-"))
        redrawn == Emit(ended, Call("queue_redraw_all", "on_ungrab", <<>>, <<>>, "-", "-"))
    IN Emit(redrawn, Call("set_cursor_image", "on_ungrab", <<>>, <<>>, "default", "-"))

\* unset left as a no-op.
unset_noop(m, begin_ok) == m

\* PointerGrab::unset
unset(m, begin_ok) == on_ungrab(m, begin_ok)

\* handle.unset_grab(self, data, serial, time, true): the pointer stack
\* notifies the grab and removes it.
unset_grab(m, begin_ok) == [unset(m, begin_ok) EXCEPT !.grab = "ended"]

\* The handler starts by forwarding the event to the pointer machinery.
Forward(m, by, what, arg, target) ==
    [m EXCEPT !.calls = <<Call(what, by, arg, <<>>, target, "-")>>]

----------------------------------------------------------------------------
(* MoveGrab::motion *)

\* Recognition that runs in every gesture state.
InRecognizing_always(g) == TRUE

\* if self.gesture == GestureState::Recognizing
InRecognizing(g) == g = "Recognizing"

\* The threshold to be exceeded, not reached.
ThresholdReached_strict(c) == c[1] * c[1] + c[2] * c[2] > Threshold * Threshold

\* The threshold compared with the squared distance without being squared.
ThresholdReached_unsquared(c) == c[1] * c[1] + c[2] * c[2] >= Threshold

\* c.x * c.x + c.y * c.y >= 8. * 8.
ThresholdReached(c) == c[1] * c[1] + c[2] * c[2] >= Threshold * Threshold

\* The comparison with >= in place of >.
ChoosesViewOffset_tie(floating, c) == ~floating /\ Abs(c[1]) >= Abs(c[2])

\* if !is_floating && c.x.abs() > c.y.abs(): the view offset gesture;
\* else the interactive move.
ChoosesViewOffset(floating, c) == ~floating /\ Abs(c[1]) > Abs(c[2])

\* The delta of the event kept as it is.
RecognizedDelta_per_event(c, delta) == delta

\* delta = c: apply the whole delta that accumulated during recognizing.
RecognizedDelta(c, delta) == c

\* The recognizing step of motion.  The result is the working state, the
\* delta to dispatch and whether the handler unset the grab and returned.
Recognize(m, c, delta, r) ==
    IF ~(InRecognizing(m.gesture) /\ ThresholdReached(c))
    THEN [m |-> m, delta |-> delta, returned |-> FALSE]
    ELSE
      LET asked == Emit(m, Call("is_floating", "motion", <<>>, <<>>, "-",
                                Bool(is_floating(m.layout))))
      IN IF ChoosesViewOffset(is_floating(m.layout), c)
         THEN
           LET looked == Emit(asked, Call("find_placement", "motion", <<>>, <<>>, "-",
                                          IF find_placement(m.layout)
                                          THEN "Some" ELSE "None"))
           IN IF ~find_placement(m.layout)
              THEN \* Can no longer start the gesture.
                   [m |-> unset_grab(looked, r.ungrab_begin_ok),
                    delta |-> delta, returned |-> TRUE]
              ELSE
                LET begun == Emit(looked, Call("view_offset_begin", "motion", <<>>, <<>>,
                                               "false", "-"))
                    decided == [begun EXCEPT !.gesture = "ViewOffset"]
                IN [m |-> Emit(decided, Call("set_cursor_image", "motion", <<>>, <<>>,
                                             "all-scroll", "-")),
                    delta |-> RecognizedDelta(c, delta), returned |-> FALSE]
         ELSE
           LET begun == Emit(asked, Call("move_begin", "motion", <<>>,
                                         start_pos_within_output, start_output,
                                         Bool(r.begin_ok)))
           IN IF ~r.begin_ok
              THEN \* Can no longer start the move.
                   [m |-> unset_grab(begun, r.ungrab_begin_ok),
                    delta |-> delta, returned |-> TRUE]
              ELSE
                LET decided == [begun EXCEPT !.gesture = "Move"]
                IN [m |-> Emit(decided, Call("set_cursor_image", "motion", <<>>, <<>>,
                                             "move", "-")),
                    delta |-> RecognizedDelta(c, delta), returned |-> FALSE]

\* The view offset branch going on only when the update names an output.
Dispatch_needs_output(m, delta, under, ev, r) ==
    CASE m.gesture = "Recognizing" -> m
      [] m.gesture = "Move" ->
           LET updated == Emit(m, Call("move_update", "motion", delta, under.pos,
                                       under.output, Bool(r.update # "stop")))
           IN IF r.update # "stop"
              THEN Emit(updated, Call("queue_redraw_all", "motion", <<>>, <<>>, "-", "-"))
              ELSE unset_grab(updated, r.ungrab_begin_ok)
      [] m.gesture = "ViewOffset" ->
           LET res == CASE r.update = "stop" -> "None"
                        [] r.update = "ongoing" -> "Some(None)"
                        [] r.update = "ongoing_output" -> "Some(Some)"
               updated == Emit(m, Call("view_offset_update", "motion",
                                       <<-delta[1], ev.time>>, <<>>, "false", res))
           IN IF r.update = "ongoing_output"
              THEN Emit(updated, Call("queue_redraw", "motion", <<>>, <<>>, "-", "-"))
              ELSE unset_grab(updated, r.ungrab_begin_ok)

\* match self.gesture: the update of the active gesture.  A gesture that is
\* no longer ongoing falls through to unset_grab.
Dispatch(m, delta, under, ev, r) ==
    CASE m.gesture = "Recognizing" -> m
      [] m.gesture = "Move" ->
           LET updated == Emit(m, Call("move_update", "motion", delta, under.pos,
                                       under.output, Bool(r.update # "stop")))
           IN IF r.update # "stop"
              THEN Emit(updated, Call("queue_redraw_all", "motion", <<>>, <<>>, "-", "-"))
              ELSE unset_grab(updated, r.ungrab_begin_ok)
      [] m.gesture = "ViewOffset" ->
           LET res == CASE r.update = "stop" -> "None"
                        [] r.update = "ongoing" -> "Some(None)"
                        [] r.update = "ongoing_output" -> "Some(Some)"
               updated == Emit(m, Call("view_offset_update", "motion",
                                       <<-delta[1], ev.time>>, <<>>, "false", res))
           IN IF r.update = "stop"
              THEN unset_grab(updated, r.ungrab_begin_ok)
              ELSE IF r.update = "ongoing_output"
              THEN Emit(updated, Call("queue_redraw", "motion", <<>>, <<>>, "-", "-"))
              ELSE updated

\* motion that looks for the output before it looks at the window.
motion_output_first(m, ev, alive, r) ==
    LET forwarded == Forward(m, "motion", "handle.motion", ev.location, "-")
        under == output_under(ev.location)
    IN IF ~under.found
       THEN forwarded
       ELSE IF ~alive
       THEN unset_grab(forwarded, r.ungrab_begin_ok)
       ELSE
         LET delta == Sub(ev.location, forwarded.last_location)
             moved == [forwarded EXCEPT !.last_location = ev.location]
             c == Sub(ev.location, start_data.location)
             rec == Recognize(moved, c, delta, r)
         IN IF rec.returned THEN rec.m ELSE Dispatch(rec.m, rec.delta, under, ev, r)

\* motion that records last_location before it looks for the output.
motion_tracks_off_output(m, ev, alive, r) ==
    LET forwarded == Forward(m, "motion", "handle.motion", ev.location, "-")
        under == output_under(ev.location)
    IN IF ~alive
       THEN unset_grab(forwarded, r.ungrab_begin_ok)
       ELSE IF ~under.found
       THEN [forwarded EXCEPT !.last_location = ev.location]
       ELSE
         LET delta == Sub(ev.location, forwarded.last_location)
             moved == [forwarded EXCEPT !.last_location = ev.location]
             c == Sub(ev.location, start_data.location)
             rec == Recognize(moved, c, delta, r)
         IN IF rec.returned THEN rec.m ELSE Dispatch(rec.m, rec.delta, under, ev, r)

\* motion that ends the grab when no output is under the pointer.
motion_no_output_ends(m, ev, alive, r) ==
    LET forwarded == Forward(m, "motion", "handle.motion", ev.location, "-")
        under == output_under(ev.location)
    IN IF ~alive \/ ~under.found
       THEN unset_grab(forwarded, r.ungrab_begin_ok)
       ELSE
         LET delta == Sub(ev.location, forwarded.last_location)
             moved == [forwarded EXCEPT !.last_location = ev.location]
             c == Sub(ev.location, start_data.location)
             rec == Recognize(moved, c, delta, r)
         IN IF rec.returned THEN rec.m ELSE Dispatch(rec.m, rec.delta, under, ev, r)

\* MoveGrab::motion
motion(m, ev, alive, r) ==
    LET forwarded == Forward(m, "motion", "handle.motion", ev.location, "-")
        under == output_under(ev.location)
    IN IF ~alive
       THEN unset_grab(forwarded, r.ungrab_begin_ok)
       ELSE IF ~under.found
       THEN forwarded
       ELSE
         LET delta == Sub(ev.location, forwarded.last_location)
             moved == [forwarded EXCEPT !.last_location = ev.location]
             c == Sub(ev.location, start_data.location)
             rec == Recognize(moved, c, delta, r)
         IN IF rec.returned THEN rec.m ELSE Dispatch(rec.m, rec.delta, under, ev, r)

----------------------------------------------------------------------------
(* MoveGrab::button *)

\* The toggle rule applied in every gesture state.
ToggleApplies_always(g) == TRUE

\* if self.gesture == GestureState::Move
ToggleApplies(g) == g = "Move"

\* When moving with the left button, right toggles floating, and vice versa.
toggle_floating_button(start_button) ==
    IF start_button = BTN_LEFT THEN BTN_RIGHT ELSE BTN_LEFT

\* The pointer's pressed buttons once the event is taken in, which is before
\* the grab sees it: handle.current_pressed().
current_pressed(held, ev) ==
    IF ev.state = "Pressed" THEN held \cup {ev.button} ELSE held \ {ev.button}

\* The grab ended only once no button is held.
OriginReleased_none_held(held, start_button) == held = {}

\* !handle.current_pressed().contains(&self.start_data.button)
OriginReleased(held, start_button) == start_button \notin held

button(m, ev, held, begin_ok) ==
    LET forwarded == Forward(m, "button", "handle.button", <<ev.button>>, ev.state)
        toggled ==
            IF /\ ToggleApplies(forwarded.gesture)
               /\ ev.button = toggle_floating_button(start_data.button)
               /\ ev.state = "Pressed"
            THEN Emit([forwarded EXCEPT !.layout = toggle_window_floating(@)],
                      Call("toggle_window_floating", "button", <<>>, <<>>, "-", "-"))
            ELSE forwarded
    IN IF OriginReleased(held, start_data.button)
       THEN \* The button that initiated the grab was released.
            unset_grab(toggled, begin_ok)
       ELSE toggled

\* relative_motion, axis, frame and the gesture_* handlers only forward.
pass_through(m) == Forward(m, "pass_through", "handle.forward", <<>>, "-")

----------------------------------------------------------------------------
(* The state machine *)

Working ==
    [gesture |-> gesture, last_location |-> last_location, grab |-> grab,
     layout |-> layout, calls |-> calls, obs |-> obs]

Commit(m) ==
    /\ gesture' = m.gesture
    /\ last_location' = m.last_location
    /\ grab' = m.grab
    /\ layout' = m.layout
    /\ calls' = m.calls
    /\ obs' = m.obs

\* Before MoveGrab::new: a button was pressed on a live window.
Init ==
    /\ start_data \in [location : StartLocations, button : Buttons]
    /\ pressed = {start_data.button}
    /\ start_output = "none"
    /\ start_pos_within_output = <<0, 0>>
    /\ last_location = <<0, 0>>
    /\ gesture = "Recognizing"
    /\ grab = "none"
    /\ window_alive = TRUE
    /\ layout \in [floating : BOOLEAN, placement : {"monitor"}]
    /\ calls = <<>>
    /\ obs = InitObs

\* new without the check of the output under the pointer.
New_unchecked ==
    /\ grab = "none"
    /\ LET under == output_under(start_data.location)
       IN /\ grab' = "active"
          /\ last_location' = start_data.location
          /\ start_output' = under.output
          /\ start_pos_within_output' = under.pos
          /\ gesture' = "Recognizing"
    /\ UNCHANGED <<start_data, window_alive, layout, pressed, calls, obs>>

\* MoveGrab::new
New ==
    /\ grab = "none"
    /\ LET under == output_under(start_data.location)
       IN IF under.found
          THEN /\ grab' = "active"
               /\ last_location' = start_data.location
               /\ start_output' = under.output
               /\ start_pos_within_output' = under.pos
               /\ gesture' = "Recognizing"
          ELSE /\ grab' = "failed"
               /\ UNCHANGED <<last_location, start_output, start_pos_within_output,
                              gesture>>
    /\ UNCHANGED <<start_data, window_alive, layout, pressed, calls, obs>>

\* A motion event reaches the grab.
Motion ==
    /\ grab = "active"
    /\ \E d \in Displacements, t \in Timestamps, r \in Answers :
         LET ev == [location |-> Add(start_data.location, d), time |-> t]
             m == motion(Working, ev, window_alive, r)
         IN Commit([m EXCEPT !.obs.dead_zone_only =
                               @ /\ d[1] * d[1] + d[2] * d[2] < 64,
                             !.obs.moved_before =
                               last_location # start_data.location])
    /\ UNCHANGED <<start_data, start_output, start_pos_within_output, window_alive,
                   pressed>>

\* A button event reaches the grab.
Button ==
    /\ grab = "active"
    /\ \E b \in Buttons, st \in ButtonStates, ok \in BOOLEAN :
         LET ev == [button |-> b, state |-> st]
         IN /\ pressed' = current_pressed(pressed, ev)
            /\ Commit(button(Working, ev, pressed', ok))
    /\ UNCHANGED <<start_data, start_output, start_pos_within_output, window_alive>>

\* An axis, frame, relative motion or touchpad gesture event reaches the grab.
PassThrough ==
    /\ grab = "active"
    /\ Commit(pass_through(Working))
    /\ UNCHANGED <<start_data, start_output, start_pos_within_output, window_alive,
                   pressed>>

\* The host removes the grab between events.
HostUnset ==
    /\ grab = "active"
    /\ \E ok \in BOOLEAN :
         Commit([unset([Working EXCEPT !.calls = <<>>], ok) EXCEPT !.grab = "ended"])
    /\ UNCHANGED <<start_data, start_output, start_pos_within_output, window_alive,
                   pressed>>

\* Other activity destroys the window.
WindowDestroyed ==
    /\ grab = "active"
    /\ window_alive
    /\ window_alive' = FALSE
    /\ UNCHANGED <<start_data, start_output, start_pos_within_output, last_location,
                   gesture, grab, layout, pressed, calls, obs>>

\* Other activity moves the window to another workspace or unmaps it.
LayoutChanged ==
    /\ grab = "active"
    /\ \E p \in Placements \ {layout.placement} :
         layout' = [layout EXCEPT !.placement = p]
    /\ UNCHANGED <<start_data, start_output, start_pos_within_output, last_location,
                   gesture, grab, window_alive, pressed, calls, obs>>

Next ==
    \/ New
    \/ Motion
    \/ Button
    \/ PassThrough
    \/ HostUnset
    \/ WindowDestroyed
    \/ LayoutChanged

Spec == Init /\ [][Next]_vars

TypeOK ==
    /\ gesture \in GestureStates
    /\ grab \in {"none", "active", "ended", "failed"}
    /\ window_alive \in BOOLEAN
    /\ pressed \subseteq Buttons

----------------------------------------------------------------------------
(* Properties *)

CallIndexes == 1..Len(calls)

\* The handler that ran last made the call.
Made(op, by) == \E i \in CallIndexes : calls[i].op = op /\ calls[i].by = by

\* The handler that ran last: "motion", "button", "pass_through", or
\* "on_ungrab" when the host removed the grab.
LastHandler == IF calls = <<>> THEN "none" ELSE calls[1].by

\* The displacement of the pointer from where the grab started.
Cumulative == Sub(last_location, start_data.location)

BeginOps == {"move_begin", "view_offset_begin"}
UpdateOps == {"move_update", "view_offset_update"}
EndOps == {"move_end", "view_offset_end"}

\* C1 as stated: once the session is destroyed, as many move_begin calls as
\* move_end calls and as many view_offset_begin calls as view_offset_end
\* calls were made, refused move_begin calls included.
C1_BeginCallsEqualEndCalls ==
    grab = "ended" =>
        /\ obs.move_begin = obs.move_end
        /\ obs.view_begin = obs.view_end

\* C1 amended: once the session is destroyed, as many move_begin calls
\* returned true as move_end calls were made, and as many view_offset_begin
\* calls as view_offset_end calls were made.
C1_OpenedEqualClosed ==
    grab = "ended" =>
        /\ obs.move_begin_ok = obs.move_end
        /\ obs.view_begin = obs.view_end

\* The degenerate pair of on_ungrab: recognition never completed.
C1_Witness ==
    /\ grab = "ended"
    /\ gesture = "Recognizing"
    /\ Made("move_begin", "on_ungrab")
    /\ Made("move_end", "on_ungrab")
    /\ obs.move_begin_ok = 1
    /\ obs.move_end = 1

\* C2: over the whole session, motion events and the final ungrab included,
\* move_begin and view_offset_begin are called at most once between them.
C2_SingleBeginCall == obs.move_begin + obs.view_begin <= 1

\* C3: gesture_state starts as Recognizing, changes only from Recognizing
\* to Move or to ViewOffset, and never changes once it is Move or ViewOffset.
C3_GestureMonotonic ==
    [][/\ (grab # "active" /\ grab' = "active") => gesture' = "Recognizing"
       /\ gesture' # gesture =>
            /\ gesture = "Recognizing"
            /\ gesture' \in {"Move", "ViewOffset"}]_vars

\* A decided gesture that went through a floating toggle.
C3_Witness ==
    /\ gesture = "Move"
    /\ Made("toggle_window_floating", "button")

\* The motion handler decided the intent on its event: it asked whether the
\* window is floating.
Decided == Made("is_floating", "motion")
FloatingWhenDecided ==
    \E i \in CallIndexes : calls[i].op = "is_floating" /\ calls[i].ret = "true"
MoveIntent == Made("move_begin", "motion") /\ ~Made("find_placement", "motion")
ViewOffsetIntent ==
    /\ Made("find_placement", "motion")
    /\ ~Made("move_begin", "motion")
    /\ Made("view_offset_begin", "motion") <=>
         \E i \in CallIndexes : calls[i].op = "find_placement" /\ calls[i].ret = "Some"

\* C4 as stated: on the event that reaches the threshold with cumulative
\* displacement c, a floating window gives Move; a tiled window gives Move
\* when |c.x| > |c.y| and ViewOffset when |c.x| <= |c.y|.
C4_HorizontalIsMove ==
    Decided =>
        /\ FloatingWhenDecided => MoveIntent
        /\ (~FloatingWhenDecided /\ Abs(Cumulative[1]) > Abs(Cumulative[2]))
             => MoveIntent
        /\ (~FloatingWhenDecided /\ Abs(Cumulative[1]) <= Abs(Cumulative[2]))
             => ViewOffsetIntent

\* C4 amended: on the event that reaches the threshold with cumulative
\* displacement c, a floating window gives Move (move_begin is called); a
\* tiled window gives ViewOffset when |c.x| > |c.y| (view_offset_begin is
\* called when the placement lookup succeeds) and Move when |c.x| <= |c.y|.
C4_HorizontalIsViewOffset ==
    Decided =>
        /\ FloatingWhenDecided => MoveIntent
        /\ (~FloatingWhenDecided /\ Abs(Cumulative[1]) > Abs(Cumulative[2]))
             => ViewOffsetIntent
        /\ (~FloatingWhenDecided /\ Abs(Cumulative[1]) <= Abs(Cumulative[2]))
             => MoveIntent

\* A tiled window dragged by (9, 6) became a view offset gesture.
C4_Witness ==
    /\ Decided
    /\ ~FloatingWhenDecided
    /\ Cumulative = <<9, 6>>
    /\ Made("view_offset_begin", "motion")
    /\ gesture = "ViewOffset"

\* C5: while every motion event left the pointer less than 8 units from
\* where the grab started, gesture_state is Recognizing and the motion
\* handler has called no begin and no update operation.
C5_DeadZone ==
    obs.dead_zone_only =>
        /\ gesture = "Recognizing"
        /\ \A i \in CallIndexes :
             calls[i].by = "motion" => calls[i].op \notin BeginOps \cup UpdateOps

\* A second motion event inside the dead zone, away from the start.
C5_Witness ==
    /\ obs.dead_zone_only
    /\ obs.moved_before
    /\ grab = "active"
    /\ LastHandler = "motion"
    /\ Cumulative = <<3, 4>>

\* The motion handler completed recognition on its event: it requested the
\* cursor icon of the gesture.
Recognized == Made("set_cursor_image", "motion")

\* C6: on the event on which recognition completes, the update of the
\* gesture gets the cumulative displacement c: move_update the delta c,
\* view_offset_update the value -c.x.
C6_WholeDeltaApplied ==
    Recognized =>
        /\ gesture = "Move" =>
             \E i \in CallIndexes :
                 calls[i].op = "move_update" /\ calls[i].arg = Cumulative
        /\ gesture = "ViewOffset" =>
             \E i \in CallIndexes :
                 calls[i].op = "view_offset_update" /\ calls[i].arg[1] = -Cumulative[1]

\* Motion inside the dead zone, then an event at (10, 2): move_update gets
\* (10, 2).
C6_Witness ==
    /\ Recognized
    /\ gesture = "Move"
    /\ obs.moved_before
    /\ Cumulative = <<10, 2>>
    /\ \E i \in CallIndexes : calls[i].op = "move_update" /\ calls[i].arg = <<10, 2>>

\* C7: a button event ends the session exactly when the button that started
\* the grab is not among the pressed buttons after the event, in every
\* gesture state.
C7_ButtonEndsGrab ==
    LastHandler = "button" =>
        (grab = "ended" <=> start_data.button \notin pressed)

\* The starting button was released during a view offset gesture while
\* another button stayed held.
C7_Witness ==
    /\ LastHandler = "button"
    /\ gesture = "ViewOffset"
    /\ grab = "ended"
    /\ pressed # {}

\* The button paired with the one that started the grab.
PairedButton == IF start_data.button = BTN_LEFT THEN BTN_RIGHT ELSE BTN_LEFT

\* C8: in a grab started by the left or the right button, a button event
\* calls toggle_floating exactly when gesture_state is Move and the event
\* is a press of the paired button, and the toggle does not end the session
\* while the starting button stays held.
C8_ToggleOnlyInMove ==
    (LastHandler = "button" /\ start_data.button \in {BTN_LEFT, BTN_RIGHT}) =>
        /\ Made("toggle_window_floating", "button") <=>
             /\ gesture = "Move"
             /\ calls[1].arg = <<PairedButton>>
             /\ calls[1].target = "Pressed"
        /\ (Made("toggle_window_floating", "button") /\ start_data.button \in pressed)
             => grab = "active"

\* A grab started by the right button, toggled by a left press, still active.
C8_Witness ==
    /\ start_data.button = BTN_RIGHT
    /\ Made("toggle_window_floating", "button")
    /\ grab = "active"

\* The motion handler's call i was refused: move_begin returned false or
\* the placement lookup found nothing.
RefusedAt(i) ==
    /\ calls[i].by = "motion"
    /\ \/ calls[i].op = "move_begin" /\ calls[i].ret = "false"
       \/ calls[i].op = "find_placement" /\ calls[i].ret = "None"

\* C9: when recognition fails to open a transaction, the session ends on
\* that event, no update is called on it and no begin is attempted after
\* the refusal.
C9_NoBeginAfterRefusal ==
    \A i \in CallIndexes :
        RefusedAt(i) =>
            /\ grab = "ended"
            /\ \A j \in CallIndexes : calls[j].op \notin UpdateOps
            /\ \A j \in CallIndexes : j > i => calls[j].op \notin BeginOps

\* C10: on_ungrab has run exactly once when the session has ended and not
\* at all before; an engine refusal and an update that is no longer ongoing
\* end the session; and the handler that released the grab makes no call
\* after on_ungrab's.
C10_UngrabOnce ==
    /\ grab \in {"none", "failed", "active"} => obs.ungrabs = 0
    /\ grab = "ended" =>
         /\ obs.ungrabs = 1
         /\ calls[Len(calls)].by = "on_ungrab"
         /\ \A i, j \in CallIndexes :
              (calls[i].by = "on_ungrab" /\ i < j) => calls[j].by = "on_ungrab"
    /\ \A i \in CallIndexes :
         (RefusedAt(i) \/ (calls[i].op \in UpdateOps /\ calls[i].ret \in {"false", "None"}))
            => grab = "ended"

\* An update reported the gesture no longer ongoing and the session ended
\* through on_ungrab.
C10_Witness ==
    /\ grab = "ended"
    /\ obs.ungrabs = 1
    /\ \E i \in CallIndexes : calls[i].op = "move_update" /\ calls[i].ret = "false"
    /\ Made("move_end", "on_ungrab")


\* The step is a motion event handled by the grab: the handler that ran is
\* motion, and the step is not other activity that left its calls in place.
MotionStep ==
    /\ grab = "active"
    /\ calls' # <<>>
    /\ calls'[1].op = "handle.motion"
    /\ layout' = layout
    /\ window_alive' = window_alive

\* The location of the motion event of the step, and of the last handler.
EventLocation == calls[1].arg

\* C11: a motion event over no output, the window alive, leaves
\* gesture_state and last_location as they are, calls nothing on the layout
\* engine and leaves the session alive, in every gesture state.
C11_NoOutputDropsEvent ==
    [][(MotionStep /\ window_alive /\ ~output_under(EventLocation').found) =>
          /\ gesture' = gesture
          /\ last_location' = last_location
          /\ Len(calls') = 1
          /\ obs'.txn = obs.txn
          /\ grab' = "active"]_vars

\* A move in progress whose last event fell off all outputs: the session is
\* alive and the transaction still open.
C11_Witness ==
    /\ LastHandler = "motion"
    /\ ~output_under(EventLocation).found
    /\ window_alive
    /\ gesture = "Move"
    /\ grab = "active"
    /\ obs.txn = "move"
    /\ last_location # EventLocation

\* C12: creation yields a session exactly when an output is under the
\* initiating location; the session then is Recognizing with last_location
\* the origin and start_output, start_pos_within_output the locator's
\* result, which it keeps; a failed creation makes no call.
C12_NewNeedsOutput ==
    /\ [](grab # "none" =>
            LET under == output_under(start_data.location)
            IN /\ grab = "failed" <=> ~under.found
               /\ grab = "failed" => (calls = <<>> /\ obs = InitObs)
               /\ grab # "failed" =>
                    /\ start_output = under.output
                    /\ start_pos_within_output = under.pos)
    /\ [][(grab = "none" /\ grab' = "active") =>
            /\ gesture' = "Recognizing"
            /\ last_location' = start_data.location
            /\ calls' = <<>>
            /\ obs' = InitObs]_vars

\* A session just created on output o1.
C12_Witness ==
    /\ grab = "active"
    /\ calls = <<>>
    /\ gesture = "Recognizing"
    /\ last_location = start_data.location
    /\ start_output = "o1"
    /\ start_pos_within_output = <<34, 33>>


\* The calls of an operation that on_ungrab made.
UngrabCalls(op) ==
    {i \in CallIndexes : calls[i].by = "on_ungrab" /\ calls[i].op = op}

\* C13: the end issued at ungrab matches gesture_state: in Recognizing one
\* move_begin is attempted and move_end follows exactly when it succeeded;
\* in Move exactly one move_end; in ViewOffset exactly one view_offset_end,
\* not cancelled; a ViewOffset session never calls move_end, a Move or
\* Recognizing session never view_offset_end.
C13_EndMatchesGesture ==
    /\ gesture = "ViewOffset" => obs.move_end = 0
    /\ gesture # "ViewOffset" => obs.view_end = 0
    /\ grab = "ended" =>
         CASE gesture = "Recognizing" ->
                /\ Cardinality(UngrabCalls("move_begin")) = 1
                /\ Cardinality(UngrabCalls("move_end")) <= 1
                /\ UngrabCalls("move_end") # {} <=>
                     \E i \in UngrabCalls("move_begin") : calls[i].ret = "true"
                /\ \A i \in UngrabCalls("move_begin"), j \in UngrabCalls("move_end") :
                     j = i + 1
                /\ UngrabCalls("view_offset_end") = {}
           [] gesture = "Move" ->
                /\ Cardinality(UngrabCalls("move_end")) = 1
                /\ UngrabCalls("move_begin") = {}
                /\ UngrabCalls("view_offset_end") = {}
           [] gesture = "ViewOffset" ->
                /\ Cardinality(UngrabCalls("view_offset_end")) = 1
                /\ \A i \in UngrabCalls("view_offset_end") :
                     calls[i].target = "Some(false)"
                /\ UngrabCalls("move_begin") = {}
                /\ UngrabCalls("move_end") = {}

\* The host removed the grab during a view offset gesture.
C13_Witness ==
    /\ grab = "ended"
    /\ gesture = "ViewOffset"
    /\ LastHandler = "on_ungrab"
    /\ UngrabCalls("view_offset_end") # {}

\* C14: the session keeps the engine's protocol: an update only inside the
\* transaction its begin opened, an end only for an open transaction, a
\* begin only when none is open, and no transaction open once the session
\* has ended.
C14_ClosedOpenClosed ==
    /\ obs.protocol_ok
    /\ grab = "ended" => obs.txn = "closed"
    /\ grab = "active" =>
         obs.txn = CASE gesture = "Recognizing" -> "closed"
                     [] gesture = "Move" -> "move"
                     [] gesture = "ViewOffset" -> "view_offset"

\* A move that was opened, updated and closed.
C14_Witness ==
    /\ grab = "ended"
    /\ obs.txn = "closed"
    /\ obs.move_begin_ok = 1
    /\ obs.move_end = 1
    /\ obs.sum_move # <<0, 0>>

\* C15: a motion event that reaches the update of the active gesture leaves
\* the session alive exactly when the update reports the gesture ongoing
\* (move_update true; view_offset_update Some, with or without an output);
\* otherwise the session ends on that event and on_ungrab issues the
\* matching end.
C15_OngoingKeepsGrab ==
    \A i \in CallIndexes :
        /\ calls[i].op = "move_update" =>
             /\ grab = "active" <=> calls[i].ret = "true"
             /\ calls[i].ret = "false" =>
                  (grab = "ended" /\ UngrabCalls("move_end") # {})
        /\ calls[i].op = "view_offset_update" =>
             /\ grab = "active" <=> calls[i].ret \in {"Some(None)", "Some(Some)"}
             /\ calls[i].ret = "None" =>
                  (grab = "ended" /\ UngrabCalls("view_offset_end") # {})

\* A view offset update that named no output: the session goes on.
C15_Witness ==
    /\ grab = "active"
    /\ gesture = "ViewOffset"
    /\ \E i \in CallIndexes :
         calls[i].op = "view_offset_update" /\ calls[i].ret = "Some(None)"


\* C16: a motion event that finds the window dead, in any gesture state and
\* over an output or not, leaves last_location and gesture_state as they
\* are, makes no call of its own beyond the forward, and ends the session
\* through on_ungrab, which leaves no transaction open.
C16_DeadWindowEndsGrab ==
    [][(MotionStep /\ ~window_alive) =>
          /\ grab' = "ended"
          /\ last_location' = last_location
          /\ gesture' = gesture
          /\ \A i \in 2..Len(calls') : calls'[i].by = "on_ungrab"
          /\ obs'.ungrabs = 1
          /\ obs'.txn = "closed"]_vars

\* A view offset gesture ended by a motion event over no output after the
\* window died.
C16_Witness ==
    /\ grab = "ended"
    /\ ~window_alive
    /\ LastHandler = "motion"
    /\ gesture = "ViewOffset"
    /\ ~output_under(EventLocation).found
    /\ UngrabCalls("view_offset_end") # {}
    /\ obs.txn = "closed"

\* The motion handler requested the icon in the step.
IconRequested(icon) ==
    /\ MotionStep
    /\ \E i \in 1..Len(calls') :
         /\ calls'[i].op = "set_cursor_image"
         /\ calls'[i].by = "motion"
         /\ calls'[i].target = icon

\* C17: the move icon is requested exactly when gesture_state becomes Move
\* and the scroll icon exactly when it becomes ViewOffset, never on a
\* refusal; while the session is alive the cursor is the one of its gesture,
\* and once it has ended the last request is the reset to the default.
C17_CursorFollowsGesture ==
    /\ [](/\ grab = "ended" => obs.cursor = "default"
          /\ grab = "active" =>
               obs.cursor = CASE gesture = "Recognizing" -> "none"
                              [] gesture = "Move" -> "move"
                              [] gesture = "ViewOffset" -> "all-scroll"
          /\ \A i \in CallIndexes :
               RefusedAt(i) => ~Made("set_cursor_image", "motion"))
    /\ [][/\ (gesture # "Move" /\ gesture' = "Move") <=> IconRequested("move")
          /\ (gesture # "ViewOffset" /\ gesture' = "ViewOffset")
               <=> IconRequested("all-scroll")]_vars

\* Recognition completed and the gesture stopped on the same event: the
\* scroll icon was requested and then reset.
C17_Witness ==
    /\ grab = "ended"
    /\ gesture = "ViewOffset"
    /\ Made("set_cursor_image", "motion")
    /\ obs.cursor = "default"

\* C18: the deltas dispatched so far add up to the displacement of the
\* pointer: in Move the deltas of move_update to last_location - origin, in
\* ViewOffset the values of view_offset_update to -(last_location.x -
\* origin.x).
C18_DeltasTelescope ==
    /\ gesture = "Move" => obs.sum_move = Cumulative
    /\ gesture = "ViewOffset" => obs.sum_view = -Cumulative[1]
    /\ gesture = "Recognizing" => (obs.sum_move = <<0, 0>> /\ obs.sum_view = 0)

\* A move whose last event fell off all outputs: the deltas still add up to
\* the displacement of the last event that was handled.
C18_Witness ==
    /\ gesture = "Move"
    /\ grab = "active"
    /\ LastHandler = "motion"
    /\ ~output_under(EventLocation).found
    /\ obs.moved_before
    /\ obs.sum_move = Cumulative
    /\ Cumulative # <<0, 0>>


\* C19: a motion event handled in Recognizing (window alive, output found)
\* whose displacement c from the origin has c.x * c.x + c.y * c.y >= 64,
\* the boundary included, leaves the session decided or ended; one with a
\* smaller c leaves it Recognizing and alive, wherever the pointer was
\* before.
C19_ThresholdDecides ==
    [][(/\ MotionStep
        /\ window_alive
        /\ gesture = "Recognizing"
        /\ output_under(EventLocation').found) =>
          LET c == Sub(EventLocation', start_data.location)
          IN IF c[1] * c[1] + c[2] * c[2] >= 64
             THEN gesture' \in {"Move", "ViewOffset"} \/ grab' = "ended"
             ELSE gesture' = "Recognizing" /\ grab' = "active"]_vars

\* An event at exactly 8 units, (8, 0), decided the gesture.
C19_Witness ==
    /\ Recognized
    /\ Cumulative = <<8, 0>>
    /\ gesture = "ViewOffset"
    /\ grab = "active"

\* C20: the toggle pairs only the left and the right button: in a session
\* started by another button no press calls toggle_floating, in one started
\* by left only a press of right does, in one started by right only a press
\* of left.
C20_OnlyPrimaryButtonsPaired ==
    (LastHandler = "button" /\ Made("toggle_window_floating", "button")) =>
        /\ calls[1].target = "Pressed"
        /\ \/ start_data.button = BTN_LEFT /\ calls[1].arg = <<BTN_RIGHT>>
           \/ start_data.button = BTN_RIGHT /\ calls[1].arg = <<BTN_LEFT>>

====
